---- MODULE Spec2Model ----
(***************************************************************************)
(* Deployment diagnostics of the DigitalZango Netlify MCP server: the      *)
(* ordered error-pattern table, the state-based deployment classifier, the *)
(* retry recommendation and the tool handlers that call them.              *)
(*                                                                         *)
(* Text is a sequence of one-character strings, so that the regular        *)
(* expressions and the substring tests of the source are computed on the   *)
(* characters of the message.                                              *)
(***************************************************************************)
EXTENDS Integers, Sequences, FiniteSets, TLC

VARIABLES pc, call, deployment, deployments, errorPattern, metrics, shouldRetry,
          analysis, response,
          lastIndex,   \* the lastIndex property of the pattern object of every rule
          earlier,     \* a classification made before: its input and its result
          accessToken, \* config.netlify.accessToken, read when the process starts
          contentMetrics, \* the ContentMetrics of analyze-content-performance
          fetches,     \* the two fetches handed to Promise.all: state and payload
          promiseAll   \* the promise of Promise.all: pending, fulfilled or rejected

vars == <<pc, call, deployment, deployments, errorPattern, metrics, shouldRetry,
          analysis, response, lastIndex, earlier, accessToken, contentMetrics,
          fetches, promiseAll>>

\* JavaScript null / undefined
Null == [null |-> TRUE]

----------------------------------------------------------------------------
\* Text

UpperChars == <<"A","B","C","D","E","F","G","H","I","J","K","L","M",
                "N","O","P","Q","R","S","T","U","V","W","X","Y","Z">>

LowerChars == <<"a","b","c","d","e","f","g","h","i","j","k","l","m",
                "n","o","p","q","r","s","t","u","v","w","x","y","z">>

LowerMap == [c \in {UpperChars[i] : i \in 1..26} |->
               LowerChars[CHOOSE i \in 1..26 : UpperChars[i] = c]]

\* String.prototype.toLowerCase, and the case folding of the /i flag
toLowerCase(s) == [k \in 1..Len(s) |-> IF s[k] \in DOMAIN LowerMap THEN LowerMap[s[k]] ELSE s[k]]

Digits == {"0","1","2","3","4","5","6","7","8","9"}

\* the characters the regular-expression dot does not match
LineTerminators == {"\n", "\r"}

\* lit occurs in s at position p
StartsAt(s, lit, p) ==
  /\ p + Len(lit) - 1 <= Len(s)
  /\ \A k \in 1..Len(lit) : s[p + k - 1] = lit[k]

\* String.prototype.includes
includes(s, lit) == \E p \in 1..(Len(s) + 1) : StartsAt(s, lit, p)

----------------------------------------------------------------------------
\* Regular expressions: a pattern is a sequence of alternatives (the
\* top-level | of the source), an alternative a sequence of atoms.

\* a literal of a pattern with the i flag: compared case-folded
Lit(chars) == [t |-> "lit", v |-> toLowerCase(chars)]
DotStar == [t |-> "dotstar", v |-> <<>>]
DigitPlus == [t |-> "digitplus", v |-> <<>>]

RECURSIVE MatchAt(_, _, _, _)
\* atoms n.. of alt match a prefix of the case-folded s starting at position p
MatchAt(s, alt, n, p) ==
  IF n > Len(alt) THEN TRUE
  ELSE IF alt[n].t = "lit"
    THEN /\ StartsAt(s, alt[n].v, p)
         /\ MatchAt(s, alt, n + 1, p + Len(alt[n].v))
  ELSE IF alt[n].t = "dotstar"
    \* .* : nothing, or one character that is no line terminator and .* again
    THEN \/ MatchAt(s, alt, n + 1, p)
         \/ /\ p <= Len(s)
            /\ s[p] \notin LineTerminators
            /\ MatchAt(s, alt, n, p + 1)
  \* \d+ : one digit, then the rest or \d+ again
  ELSE /\ p <= Len(s)
       /\ s[p] \in Digits
       /\ \/ MatchAt(s, alt, n + 1, p + 1)
          \/ MatchAt(s, alt, n, p + 1)

\* RegExp.prototype.test for a pattern with the i flag and without the g
\* flag: an unanchored search that keeps no lastIndex between calls
test(pattern, s) ==
  LET folded == toLowerCase(s) IN
  \E a \in 1..Len(pattern) : \E p \in 1..(Len(s) + 1) :
     MatchAt(folded, pattern[a], 1, p)

\* the first position from p on that a .* cannot cross: a line terminator
\* or the end of s
LineEnd(s, p) ==
  CHOOSE q \in p..(Len(s) + 1) :
    /\ q > Len(s) \/ s[q] \in LineTerminators
    /\ \A r \in p..(q - 1) : s[r] \notin LineTerminators

\* the first position from p on that a \d+ cannot cross
DigitsEnd(s, p) ==
  CHOOSE q \in p..(Len(s) + 1) :
    /\ q > Len(s) \/ s[q] \notin Digits
    /\ \A r \in p..(q - 1) : s[r] \in Digits

RECURSIVE EndAt(_, _, _, _)
\* the position after the match of atoms n.. of alt on the case-folded s from
\* position p, found with the backtracking order of the engine (.* and \d+
\* are greedy: the longest stretch after which the rest matches); 0 when
\* there is no match
EndAt(s, alt, n, p) ==
  IF n > Len(alt) THEN p
  ELSE IF alt[n].t = "lit"
    THEN IF StartsAt(s, alt[n].v, p)
           THEN EndAt(s, alt, n + 1, p + Len(alt[n].v))
         ELSE 0
  ELSE LET from == IF alt[n].t = "dotstar" THEN p ELSE p + 1
           upto == IF alt[n].t = "dotstar" THEN LineEnd(s, p)
                   ELSE IF p > Len(s) THEN p ELSE DigitsEnd(s, p)
           rest == {q \in from..upto : EndAt(s, alt, n + 1, q) # 0}
       IN IF rest = {} THEN 0
          ELSE EndAt(s, alt, n + 1, CHOOSE q \in rest : \A r \in rest : r <= q)

\* the search of RegExpBuiltinExec from the index start: the index after the
\* leftmost match, taken from the first alternative that matches there;
\* -1 when nothing matches
SearchFrom(pattern, s, start) ==
  LET folded == toLowerCase(s)
      alts(p) == {a \in 1..Len(pattern) : EndAt(folded, pattern[a], 1, p) # 0}
      hits == {p \in (start + 1)..(Len(s) + 1) : alts(p) # {}}
  IN IF hits = {} THEN -1
     ELSE LET p == CHOOSE q \in hits : \A r \in hits : q <= r
              a == CHOOSE b \in alts(p) : \A c \in alts(p) : b <= c
          IN EndAt(folded, pattern[a], 1, p) - 1

----------------------------------------------------------------------------
\* The rule table

NETLIFY_ERROR_PATTERNS == <<
  \* /npm.*ERR.*peer dep/i
  [ pattern |-> << <<Lit(<<"n","p","m">>), DotStar, Lit(<<"E","R","R">>), DotStar,
                     Lit(<<"p","e","e","r"," ","d","e","p">>)>> >>,
    category |-> "Dependency Conflict", severity |-> "high", buildTimeImpact |-> 2 ],
  \* /out of memory|heap.*limit/i
  [ pattern |-> << <<Lit(<<"o","u","t"," ","o","f"," ","m","e","m","o","r","y">>)>>,
                   <<Lit(<<"h","e","a","p">>), DotStar, Lit(<<"l","i","m","i","t">>)>> >>,
    category |-> "Memory Limit", severity |-> "critical", buildTimeImpact |-> 5 ],
  \* /command not found.*gatsby|hugo|next/i
  [ pattern |-> << <<Lit(<<"c","o","m","m","a","n","d"," ","n","o","t"," ","f","o","u","n","d">>),
                     DotStar, Lit(<<"g","a","t","s","b","y">>)>>,
                   <<Lit(<<"h","u","g","o">>)>>,
                   <<Lit(<<"n","e","x","t">>)>> >>,
    category |-> "Build Tool Missing", severity |-> "high", buildTimeImpact |-> 1 ],
  \* /failed to fetch|network error|timeout/i
  [ pattern |-> << <<Lit(<<"f","a","i","l","e","d"," ","t","o"," ","f","e","t","c","h">>)>>,
                   <<Lit(<<"n","e","t","w","o","r","k"," ","e","r","r","o","r">>)>>,
                   <<Lit(<<"t","i","m","e","o","u","t">>)>> >>,
    category |-> "Network Issue", severity |-> "medium", buildTimeImpact |-> 3 ],
  \* /typescript.*error|ts\(\d+\)/i
  [ pattern |-> << <<Lit(<<"t","y","p","e","s","c","r","i","p","t">>), DotStar,
                     Lit(<<"e","r","r","o","r">>)>>,
                   <<Lit(<<"t","s","(">>), DigitPlus, Lit(<<")">>)>> >>,
    category |-> "TypeScript Error", severity |-> "high", buildTimeImpact |-> 2 ],
  \* /next.*build.*failed|next.*error/i
  [ pattern |-> << <<Lit(<<"n","e","x","t">>), DotStar, Lit(<<"b","u","i","l","d">>), DotStar,
                     Lit(<<"f","a","i","l","e","d">>)>>,
                   <<Lit(<<"n","e","x","t">>), DotStar, Lit(<<"e","r","r","o","r">>)>> >>,
    category |-> "Next.js Build Error", severity |-> "high", buildTimeImpact |-> 3 ],
  \* /eslint.*error|linting.*failed/i
  [ pattern |-> << <<Lit(<<"e","s","l","i","n","t">>), DotStar, Lit(<<"e","r","r","o","r">>)>>,
                   <<Lit(<<"l","i","n","t","i","n","g">>), DotStar, Lit(<<"f","a","i","l","e","d">>)>> >>,
    category |-> "Linting Error", severity |-> "medium", buildTimeImpact |-> 1 ]
>>

\* the classification a rule yields: the fields the decision logic reads
Classification(rule) ==
  [category |-> rule.category, severity |-> rule.severity,
   buildTimeImpact |-> rule.buildTimeImpact]

RECURSIVE analyzeErrorFrom(_, _)
analyzeErrorFrom(errorMessage, i) ==
  IF i > Len(NETLIFY_ERROR_PATTERNS) THEN Null
  ELSE IF test(NETLIFY_ERROR_PATTERNS[i].pattern, errorMessage)
    THEN Classification(NETLIFY_ERROR_PATTERNS[i])
  ELSE analyzeErrorFrom(errorMessage, i + 1)

\* ErrorPatternAnalyzer.analyzeError: the first rule whose pattern matches
analyzeError(errorMessage) == analyzeErrorFrom(errorMessage, 1)

\* variant: the pattern literals carry the g flag as well
Flags_Global(i) == {"i", "g"}

\* the flags of the pattern literal of rule i: every literal of the table
\* is written /.../i
Flags(i) == {"i"}

\* variant: test searches from lastIndex and stores the end of the match
\* whatever the flags are
RegExpTest_FromLastIndex(i, s, li) ==
  LET e == SearchFrom(NETLIFY_ERROR_PATTERNS[i].pattern, s, li)
  IN [found |-> e >= 0, lastIndex |-> IF e >= 0 THEN e ELSE 0]

\* RegExp.prototype.test on the pattern object of rule i, whose lastIndex is
\* li: a pattern with the g flag searches from lastIndex and stores the end
\* of the match (0 after a failure); one without it searches from 0 and
\* leaves lastIndex alone
RegExpTest(i, s, li) ==
  LET global == "g" \in Flags(i)
      e == SearchFrom(NETLIFY_ERROR_PATTERNS[i].pattern, s, IF global THEN li ELSE 0)
  IN [found |-> e >= 0,
      lastIndex |-> IF ~global THEN li ELSE IF e >= 0 THEN e ELSE 0]

RECURSIVE analyzeErrorWith_LastMatch(_, _, _)
\* variant: the loop does not return at the first match, the last match stays
analyzeErrorWith_LastMatch(errorMessage, i, li) ==
  IF i > Len(NETLIFY_ERROR_PATTERNS) THEN [result |-> Null, lastIndex |-> li]
  ELSE LET r == RegExpTest(i, errorMessage, li[i])
           after == [li EXCEPT ![i] = r.lastIndex]
           later == analyzeErrorWith_LastMatch(errorMessage, i + 1, after)
       IN IF later.result = Null /\ r.found
            THEN [result |-> Classification(NETLIFY_ERROR_PATTERNS[i]),
                  lastIndex |-> later.lastIndex]
          ELSE later

RECURSIVE analyzeErrorWith(_, _, _)
\* the loop of analyzeError on the pattern objects of the table, from rule i
\* with the lastIndex values li: the result and the lastIndex values it leaves
analyzeErrorWith(errorMessage, i, li) ==
  IF i > Len(NETLIFY_ERROR_PATTERNS) THEN [result |-> Null, lastIndex |-> li]
  ELSE LET r == RegExpTest(i, errorMessage, li[i])
           after == [li EXCEPT ![i] = r.lastIndex]
       IN IF r.found
            THEN [result |-> Classification(NETLIFY_ERROR_PATTERNS[i]), lastIndex |-> after]
          ELSE analyzeErrorWith(errorMessage, i + 1, after)

----------------------------------------------------------------------------
\* ErrorAnalyzer (utils/errorAnalysis.ts)

Analysis(category, severity) == [category |-> category, severity |-> severity]

\* ErrorAnalyzer.categorizeError: keyword branches on the lower-cased message
categorizeError(errorMessage) ==
  LET lowerError == toLowerCase(errorMessage) IN
  IF \/ includes(lowerError, <<"n","p","m">>)
     \/ includes(lowerError, <<"y","a","r","n">>)
     \/ includes(lowerError, <<"p","a","c","k","a","g","e">>)
    THEN Analysis("Dependency Error", "high")
  ELSE IF \/ includes(lowerError, <<"c","o","m","m","a","n","d"," ","n","o","t"," ","f","o","u","n","d">>)
          \/ includes(lowerError, <<"s","c","r","i","p","t">>)
    THEN Analysis("Build Command Error", "high")
  ELSE IF \/ includes(lowerError, <<"n","o","d","e">>)
          \/ includes(lowerError, <<"v","e","r","s","i","o","n">>)
          \/ includes(lowerError, <<"e","n","g","i","n","e">>)
    THEN Analysis("Environment Error", "medium")
  ELSE IF \/ includes(lowerError, <<"f","i","l","e">>)
          \/ includes(lowerError, <<"p","a","t","h">>)
          \/ includes(lowerError, <<"d","i","r","e","c","t","o","r","y">>)
    THEN Analysis("File System Error", "medium")
  ELSE Analysis("Build Error", "medium")

\* deployment.error_message || '': a record without the field has no message
MessageOrEmpty(d) == IF "error_message" \in DOMAIN d THEN d.error_message ELSE <<>>

\* variant: only the state `error` is analysed by its message
analyzeDeploymentError_ErrorOnly(d) ==
  IF d.state = "error"
    THEN categorizeError(MessageOrEmpty(d))
  ELSE IF d.state = "stopped"
    THEN Analysis("Build Timeout", "medium")
  ELSE Analysis("Unknown Error", "medium")

\* ErrorAnalyzer.analyzeDeploymentError
analyzeDeploymentError(d) ==
  IF d.state = "error" \/ d.state = "failed"
    THEN categorizeError(MessageOrEmpty(d))
  ELSE IF d.state = "stopped"
    THEN Analysis("Build Timeout", "medium")
  ELSE Analysis("Unknown Error", "medium")

----------------------------------------------------------------------------
\* calculateRetryRecommendation (index.ts)

QuotaFloor == 30

FailureRateLimit == 30

UnknownReason == "Unknown error type - manual investigation required"
QuotaReason == "Critical: Less than 30 build minutes remaining"
BudgetReason == "Low build minutes - retry only if critical"
FixableReason == "Error type is likely fixable with retry"
TemporaryReason == "Temporary issue - retry recommended"
CodeReason == "Code-related issue - fix required before retry"
CriticalReason == "Critical error - requires code changes before retry"
FailureRateReason == "High failure rate detected - investigate pattern before retry"

Verdict(recommended, reasons) ==
  [recommended |-> recommended, reasons |-> reasons, threw |-> FALSE]

\* reading a property of undefined
TypeError == [recommended |-> FALSE, reasons |-> <<>>, threw |-> TRUE]

\* variant: only network issues count as transient
IsTransientCategory_NetworkOnly(category) ==
  category = "Network Issue"

\* the category test of the `high` case
IsTransientCategory(category) ==
  category = "Network Issue" \/ category = "Dependency Conflict"

\* variant: the `critical` case falls into the retry of low/medium
SeverityBranch_CriticalRetries(ep) ==
  IF ep.severity = "low" \/ ep.severity = "medium" \/ ep.severity = "critical"
    THEN Verdict(TRUE, <<FixableReason>>)
  ELSE IF ep.severity = "high"
    THEN IF IsTransientCategory(ep.category)
           THEN Verdict(TRUE, <<TemporaryReason>>)
           ELSE Verdict(FALSE, <<CodeReason>>)
  ELSE Verdict(FALSE, <<>>)

\* variant: `medium` is grouped with `high` instead of `low`
SeverityBranch_MediumAsHigh(ep) ==
  IF ep.severity = "low"
    THEN Verdict(TRUE, <<FixableReason>>)
  ELSE IF ep.severity = "high" \/ ep.severity = "medium"
    THEN IF IsTransientCategory(ep.category)
           THEN Verdict(TRUE, <<TemporaryReason>>)
           ELSE Verdict(FALSE, <<CodeReason>>)
  ELSE IF ep.severity = "critical"
    THEN Verdict(FALSE, <<CriticalReason>>)
  ELSE Verdict(FALSE, <<>>)

\* the switch on errorPattern.severity; it has no default case
SeverityBranch(ep) ==
  IF ep.severity = "low" \/ ep.severity = "medium"
    THEN Verdict(TRUE, <<FixableReason>>)
  ELSE IF ep.severity = "high"
    THEN IF IsTransientCategory(ep.category)
           THEN Verdict(TRUE, <<TemporaryReason>>)
           ELSE Verdict(FALSE, <<CodeReason>>)
  ELSE IF ep.severity = "critical"
    THEN Verdict(FALSE, <<CriticalReason>>)
  ELSE Verdict(FALSE, <<>>)

\* variant: the 30-minute floor is missing
QuotaBranch_NoFloor(ep, m) ==
  IF m.monthlyLimitRemaining < ep.buildTimeImpact * 2
    THEN Verdict(FALSE, <<BudgetReason>>)
  ELSE SeverityBranch(ep)

\* variant: the budget test compares with the cost, not with twice the cost
QuotaBranch_SingleCost(ep, m) ==
  IF m.monthlyLimitRemaining < QuotaFloor
    THEN Verdict(FALSE, <<QuotaReason>>)
  ELSE IF m.monthlyLimitRemaining < ep.buildTimeImpact
    THEN Verdict(FALSE, <<BudgetReason>>)
  ELSE SeverityBranch(ep)

\* variant: the budget test comes before the 30-minute floor
QuotaBranch_BudgetFirst(ep, m) ==
  IF m.monthlyLimitRemaining < ep.buildTimeImpact * 2
    THEN Verdict(FALSE, <<BudgetReason>>)
  ELSE IF m.monthlyLimitRemaining < QuotaFloor
    THEN Verdict(FALSE, <<QuotaReason>>)
  ELSE SeverityBranch(ep)

\* the build-minutes checks, then the severity switch
QuotaBranch(ep, m) ==
  IF m.monthlyLimitRemaining < QuotaFloor
    THEN Verdict(FALSE, <<QuotaReason>>)
  ELSE IF m.monthlyLimitRemaining < ep.buildTimeImpact * 2
    THEN Verdict(FALSE, <<BudgetReason>>)
  ELSE SeverityBranch(ep)

\* variant: the failure-rate reason replaces the earlier reasons
FailureRateOverride_Replacing(v, m) ==
  IF m.failureRate > FailureRateLimit
    THEN Verdict(FALSE, <<FailureRateReason>>)
  ELSE v

\* variant: the failure-rate reason is added but the verdict is kept
FailureRateOverride_KeepsVerdict(v, m) ==
  IF m.failureRate > FailureRateLimit
    THEN Verdict(v.recommended, Append(v.reasons, FailureRateReason))
  ELSE v

\* "Additional factors": the failure-rate check applied to the verdict so far
FailureRateOverride(v, m) ==
  IF m.failureRate > FailureRateLimit
    THEN Verdict(FALSE, Append(v.reasons, FailureRateReason))
  ELSE v

\* variant: the guard on a missing classification is absent, so the first
\* read of errorPattern.buildTimeImpact or errorPattern.severity throws
calculateRetryRecommendation_NoNullGuard(ep, m) ==
  IF m = Null THEN TypeError
  ELSE IF ep = Null
    THEN IF m.monthlyLimitRemaining < QuotaFloor
           THEN FailureRateOverride(Verdict(FALSE, <<QuotaReason>>), m)
           ELSE TypeError
  ELSE FailureRateOverride(QuotaBranch(ep, m), m)

calculateRetryRecommendation(ep, m) ==
  IF ep = Null THEN Verdict(FALSE, <<UnknownReason>>)
  ELSE IF m = Null THEN TypeError
  ELSE FailureRateOverride(QuotaBranch(ep, m), m)

----------------------------------------------------------------------------
\* NetlifyClient: the build metrics (index.ts)

\* A timestamp is the instant (in seconds) together with its calendar year
\* and month (0..11), the two readings the code takes of a Date.
getMonth(ts) == ts.month

\* Date.prototype.getTime: milliseconds
getTime(ts) == ts.time * 1000

\* Math.round(num / den) for den > 0: the nearest integer, halves upwards
MathRound(num, den) == (2 * num + den) \div (2 * den)

\* variant: the division truncates
MathCeil_Floor(num, den) == num \div den

\* Math.ceil(num / den) for den > 0
MathCeil(num, den) == -((-num) \div den)

\* deploy.published_at || deploy.created_at
PublishedOrCreated(deploy) ==
  IF "published_at" \in DOMAIN deploy THEN deploy.published_at ELSE deploy.created_at

\* deploy.deploy_time || 0
DeployTimeOrZero(deploy) ==
  IF "deploy_time" \in DOMAIN deploy THEN deploy.deploy_time ELSE 0

RECURSIVE TotalDurationMs(_, _)
\* the reduce of calculateAverageDuration over the first n records, with the
\* division by 1000 and by 60 left to the caller
TotalDurationMs(deploys, n) ==
  IF n = 0 THEN 0
  ELSE TotalDurationMs(deploys, n - 1)
         + (getTime(PublishedOrCreated(deploys[n])) - getTime(deploys[n].created_at))

calculateAverageDuration(deploys) ==
  IF Len(deploys) = 0 THEN 0
  ELSE MathRound(TotalDurationMs(deploys, Len(deploys)), 1000 * 60 * Len(deploys))

RECURSIVE BuildMinutesFrom(_, _)
BuildMinutesFrom(deploys, n) ==
  IF n = 0 THEN 0
  ELSE BuildMinutesFrom(deploys, n - 1) + MathCeil(DeployTimeOrZero(deploys[n]), 60)

calculateBuildMinutesUsed(deploys) == BuildMinutesFrom(deploys, Len(deploys))

\* variant: every unsuccessful terminal state counts as a failure
IsFailedDeployment_AnyFailure(deploy) ==
  deploy.state \in {"error", "failed", "stopped"}

\* deploy.state === 'error'
IsFailedDeployment(deploy) == deploy.state = "error"

calculateFailureRate(deploys) ==
  IF Len(deploys) = 0 THEN 0
  ELSE MathRound(Len(SelectSeq(deploys, IsFailedDeployment)) * 100, Len(deploys))

MonthlyLimit == 300

\* the filter of getBuildMetrics: records created in the month number of now
MonthlyDeployments(deploys, now) ==
  SelectSeq(deploys, LAMBDA deploy : getMonth(deploy.created_at) = getMonth(now))

\* variant: the remaining minutes are clamped at zero
RemainingOf_Clamped(used) ==
  IF used > MonthlyLimit THEN 0 ELSE MonthlyLimit - used

RemainingOf(used) == MonthlyLimit - used

\* variant: no metrics object for a site without deployments
getBuildMetrics_NullOnEmpty(deploys, now) ==
  IF Len(deploys) = 0 THEN Null
  ELSE LET monthlyDeployments == MonthlyDeployments(deploys, now) IN
  [ duration |-> calculateAverageDuration(monthlyDeployments),
    buildMinutesUsed |-> calculateBuildMinutesUsed(monthlyDeployments),
    monthlyLimitRemaining |-> RemainingOf(calculateBuildMinutesUsed(monthlyDeployments)),
    averageBuildTime |-> calculateAverageDuration(monthlyDeployments),
    failureRate |-> calculateFailureRate(monthlyDeployments) ]

\* NetlifyClient.getBuildMetrics on the fetched deployment list
getBuildMetrics(deploys, now) ==
  LET monthlyDeployments == MonthlyDeployments(deploys, now) IN
  [ duration |-> calculateAverageDuration(monthlyDeployments),
    buildMinutesUsed |-> calculateBuildMinutesUsed(monthlyDeployments),
    monthlyLimitRemaining |-> RemainingOf(calculateBuildMinutesUsed(monthlyDeployments)),
    averageBuildTime |-> calculateAverageDuration(monthlyDeployments),
    failureRate |-> calculateFailureRate(monthlyDeployments) ]

----------------------------------------------------------------------------
\* ContentOptimizer (utils/contentOptimization)

\* A JavaScript number that the division 0 / 0 can have produced: NaN or an
\* integer
Num(n) == [nan |-> FALSE, v |-> n]

NaN == [nan |-> TRUE, v |-> 0]

\* a quotient that is reported as it is, not rounded
Quotient(num, den) == [num |-> num, den |-> den]

\* deploy.commit_ref && deploy.commit_ref.includes(word), for some word of words
RefIncludes(deploy, words) ==
  /\ "commit_ref" \in DOMAIN deploy
  /\ Len(deploy.commit_ref) > 0
  /\ \E w \in words : includes(deploy.commit_ref, w)

\* the filter of analyzeContentImpact
IsContentDeployment(deploy) ==
  RefIncludes(deploy, {<<"c","o","n","t","e","n","t">>, <<"p","o","s","t">>, <<"b","l","o","g">>, <<"c","a","l","e","n","d","a","r">>})

\* Math.floor(n * 0.7)
SeventyPercent(n) == (7 * n) \div 10

\* Math.max
Max(a, b) == IF a >= b THEN a ELSE b

estimatePostCount(deploys) ==
  LET contentDeployments ==
        SelectSeq(deploys, LAMBDA deploy : RefIncludes(deploy, {<<"a","d","d">>, <<"n","e","w">>, <<"p","o","s","t">>}))
  IN Max(Len(contentDeployments), SeventyPercent(Len(deploys)))

RECURSIVE TotalDeployTime(_, _)
\* the reduce over deploy.deploy_time || 0 of the first n records
TotalDeployTime(deploys, n) ==
  IF n = 0 THEN 0
  ELSE TotalDeployTime(deploys, n - 1) + DeployTimeOrZero(deploys[n])

\* the sum divided by deployments.length, with no test of the length:
\* 0 / 0 is NaN and Math.round(NaN) is NaN
calculateAveragePostSize(deploys) ==
  IF Len(deploys) = 0 THEN NaN
  ELSE Num(MathRound(100 * TotalDeployTime(deploys, Len(deploys)), 60 * Len(deploys)))

\* Math.floor(n * 2.5) of the deployments above 180 seconds
identifyImageOptimizations(deploys) ==
  (5 * Len(SelectSeq(deploys, LAMBDA deploy : DeployTimeOrZero(deploy) > 180))) \div 2

calculateBuildTimePerPost(deploys) ==
  IF Len(deploys) = 0 THEN Quotient(0, 1)
  ELSE LET estimatedPosts == estimatePostCount(deploys) IN
       IF estimatedPosts > 0
         THEN Quotient(TotalDeployTime(deploys, Len(deploys)), 60 * estimatedPosts)
       ELSE Quotient(0, 1)

checkIncrementalBuildSupport(deploys) ==
  LET contentUpdates == SelectSeq(deploys, LAMBDA deploy : RefIncludes(deploy, {<<"c","o","n","t","e","n","t">>})) IN
  IF Len(contentUpdates) = 0 THEN FALSE
  ELSE TotalDeployTime(contentUpdates, Len(contentUpdates)) < 120 * Len(contentUpdates)

\* ContentOptimizer.analyzeContentImpact
analyzeContentImpact(deploys) ==
  LET contentDeployments == SelectSeq(deploys, IsContentDeployment) IN
  [ totalPosts |-> estimatePostCount(contentDeployments),
    averagePostSize |-> calculateAveragePostSize(contentDeployments),
    imageOptimizationOpportunities |-> identifyImageOptimizations(contentDeployments),
    buildTimePerPost |-> calculateBuildTimePerPost(contentDeployments),
    incrementalBuildSupport |-> checkIncrementalBuildSupport(contentDeployments) ]

----------------------------------------------------------------------------
\* Inputs

MaxFrags == 2

\* pieces of build output that error messages are made of
Fragments == {
  <<"n","p","m"," ","E","R","R","!"," ">>,
  <<"p","e","e","r"," ","d","e","p"," ","c","o","n","f","l","i","c","t">>,
  <<"o","u","t"," ","o","f"," ","m","e","m","o","r","y">>,
  <<"T","S","2","3","2","2",":"," ","t","y","p","e"," ","m","i","s","m","a","t","c","h">>,
  <<"T","S","(","2","3","2","2",")">>,
  <<"c","o","m","m","a","n","d"," ","n","o","t"," ","f","o","u","n","d",":"," ">>,
  <<"g","a","t","s","b","y">>,
  <<"n","e","x","t">>,
  <<"\n">>,
  <<"t","i","m","e","o","u","t">>,
  <<"T","y","p","e","S","c","r","i","p","t">>,
  <<" ","e","r","r","o","r">>,
  <<"E","S","L","i","n","t">> }

RECURSIVE MessagesOfLen(_)
MessagesOfLen(n) ==
  IF n = 0 THEN {<<>>}
  ELSE {m \o f : m \in MessagesOfLen(n - 1), f \in Fragments}

\* longer messages that match two rules of the table:
\* "npm ERR! peer dep conflict out of memory" and
\* "command not found: gatsby out of memory"
TwoRuleMessages == {
  <<"n","p","m"," ","E","R","R","!"," ">>
    \o <<"p","e","e","r"," ","d","e","p"," ","c","o","n","f","l","i","c","t">>
    \o <<" ">> \o <<"o","u","t"," ","o","f"," ","m","e","m","o","r","y">>,
  <<"c","o","m","m","a","n","d"," ","n","o","t"," ","f","o","u","n","d",":"," ">>
    \o <<"g","a","t","s","b","y">>
    \o <<" ">> \o <<"o","u","t"," ","o","f"," ","m","e","m","o","r","y">> }

\* error messages: up to MaxFrags fragments, the empty message included
Messages == UNION {MessagesOfLen(n) : n \in 0..MaxFrags} \cup TwoRuleMessages

DeploymentStates == {"pending", "building", "ready", "error", "failed", "stopped"}

\* deployment records as the client returns them; error_message is optional
Deployments ==
  {[state |-> st, error_message |-> msg] : st \in DeploymentStates, msg \in Messages}
  \cup {[state |-> st] : st \in DeploymentStates}

Severities == {"low", "medium", "high", "critical", "info"}

Categories == {NETLIFY_ERROR_PATTERNS[i].category : i \in 1..Len(NETLIFY_ERROR_PATTERNS)}
              \cup {"Build Error"}

Impacts == {1, 2, 3, 5, 20}

\* any classification object, not only the rows of the table
ErrorPatterns ==
  {[category |-> c, severity |-> s, buildTimeImpact |-> b] :
     c \in Categories, s \in Severities, b \in Impacts}

Remainings == {-10, 0, 20, 29, 30, 39, 40, 200}

FailureRates == {0, 10, 30, 31, 100}

MetricsValues ==
  {[monthlyLimitRemaining |-> r, failureRate |-> f] : r \in Remainings, f \in FailureRates}

\* metrics as getBuildMetrics returns them to a handler
FetchedMetrics ==
  {[monthlyLimitRemaining |-> r, failureRate |-> f] : r \in {20, 200}, f \in {10, 50}}

\* new Date() at the time of the request
Now == [year |-> 2026, month |-> 10, time |-> 900000]

\* creation instants: this month, last month, the same month a year ago
CreatedAts ==
  { [year |-> 2026, month |-> 10, time |-> 800000],
    [year |-> 2026, month |-> 9, time |-> 500000],
    [year |-> 2025, month |-> 10, time |-> 100000] }

WindowStates == {"ready", "error", "failed", "stopped"}

\* ts moved by a number of seconds that stays within its month
After(ts, seconds) == [year |-> ts.year, month |-> ts.month, time |-> ts.time + seconds]

\* deployment records of a window; published_at and deploy_time are optional
WindowRecords ==
  {[state |-> st, created_at |-> c] : st \in WindowStates, c \in CreatedAts}
  \cup {[state |-> st, created_at |-> c, deploy_time |-> 9000] :
          st \in WindowStates, c \in CreatedAts}
  \cup {[state |-> st, created_at |-> c, published_at |-> After(c, 600), deploy_time |-> 61] :
          st \in WindowStates, c \in CreatedAts}
  \cup {[state |-> st, created_at |-> c, published_at |-> After(c, 90), deploy_time |-> 12000] :
          st \in WindowStates, c \in CreatedAts}

MaxDeploys == 2

MaxWindow == 10

RECURSIVE WindowsOfLen(_)
WindowsOfLen(n) ==
  IF n = 0 THEN {<<>>}
  ELSE {Append(w, r) : w \in WindowsOfLen(n - 1), r \in WindowRecords}

\* larger windows of this month: f records in state error, then ready ones
UniformWindow(n, f) ==
  [i \in 1..n |->
     [state |-> IF i <= f THEN "error" ELSE "ready",
      created_at |-> [year |-> 2026, month |-> 10, time |-> 800000],
      published_at |-> [year |-> 2026, month |-> 10, time |-> 800600],
      deploy_time |-> 61]]

\* the deployment lists a fetch can return
Windows ==
  UNION {WindowsOfLen(n) : n \in 0..MaxDeploys}
  \cup {UniformWindow(n, f) : n \in 1..MaxWindow, f \in 0..MaxWindow}

\* commit references: none, a branch name, content-labelled ones
CommitRefs == {<<"m","a","i","n">>, <<"c","o","n","t","e","n","t">>, <<"a","d","d","-","p","o","s","t">>, <<"b","l","o","g">>}

\* deployment records as analyze-content-performance reads them; commit_ref
\* and deploy_time are optional
ContentRecords ==
  {[state |-> "ready"]}
  \cup {[state |-> "ready", deploy_time |-> t] : t \in {90, 200}}
  \cup {[state |-> "ready", commit_ref |-> c] : c \in CommitRefs}
  \cup {[state |-> "ready", commit_ref |-> c, deploy_time |-> t] :
          c \in CommitRefs, t \in {90, 200}}

MaxPosts == 2

RECURSIVE ContentWindowsOfLen(_)
ContentWindowsOfLen(n) ==
  IF n = 0 THEN {<<>>}
  ELSE {Append(w, r) : w \in ContentWindowsOfLen(n - 1), r \in ContentRecords}

ContentWindows == UNION {ContentWindowsOfLen(n) : n \in 0..MaxPosts}

----------------------------------------------------------------------------
\* The server

\* process.env.NETLIFY_ACCESS_TOKEN || '': unset gives the empty string
EmptyToken == <<>>

Tokens == {EmptyToken, <<"n","f","p","_","1">>}

TextResponse(kind) == [type |-> "text", kind |-> kind]

Init ==
  /\ pc = "idle"
  /\ call = "none"
  /\ deployment = Null
  /\ deployments = Null
  /\ errorPattern = Null
  /\ metrics = Null
  /\ shouldRetry = Null
  /\ analysis = Null
  /\ response = Null
  /\ lastIndex = [i \in 1..Len(NETLIFY_ERROR_PATTERNS) |-> 0]
  /\ earlier = Null
  /\ accessToken \in Tokens
  /\ contentMetrics = Null
  /\ fetches = Null
  /\ promiseAll = Null

\* calculateRetryRecommendation applied to a classification (or none) and metrics
CalculateRetryRecommendation(ep, m) ==
  /\ pc = "idle"
  /\ pc' = "done"
  /\ call' = "calculateRetryRecommendation"
  /\ errorPattern' = ep
  /\ metrics' = m
  /\ shouldRetry' = calculateRetryRecommendation(ep, m)
  /\ UNCHANGED <<deployment, deployments, analysis, response, lastIndex, earlier,
                 accessToken, contentMetrics, fetches, promiseAll>>

\* what a handler whose promise rejects gives its caller: no content
Rejection == [type |-> "rejection", kind |-> "rejected"]

\* new NetlifyClient(config.netlify.accessToken), the first statement of the
\* handler and outside its try block: the constructor throws on an empty
\* token and the handler rejects
ConstructorThrows(name) ==
  /\ pc' = "done"
  /\ call' = name
  /\ deployment' = Null /\ deployments' = Null /\ errorPattern' = Null
  /\ metrics' = Null /\ shouldRetry' = Null /\ analysis' = Null
  /\ contentMetrics' = Null
  /\ response' = Rejection
  /\ UNCHANGED <<lastIndex, earlier, accessToken, fetches, promiseAll>>

\* case "smart-retry-analysis": three fetches in sequence, classification,
\* recommendation, report; a failed fetch goes to the catch block
SmartRetryAnalysis(d, failAt, m) ==
  /\ pc = "idle"
  /\ IF accessToken = EmptyToken THEN ConstructorThrows("smart-retry-analysis")
     ELSE
     /\ pc' = "done"
     /\ call' = "smart-retry-analysis"
     /\ UNCHANGED <<earlier, accessToken, contentMetrics, fetches, promiseAll>>
     /\ analysis' = Null
     /\ deployments' = Null
     /\ IF failAt = 1
          THEN /\ deployment' = Null
               /\ errorPattern' = Null /\ metrics' = Null /\ shouldRetry' = Null
               /\ response' = TextResponse("error")
               /\ UNCHANGED lastIndex
        ELSE IF failAt \in {2, 3}
          THEN /\ deployment' = d
               /\ errorPattern' = Null /\ metrics' = Null /\ shouldRetry' = Null
               /\ response' = TextResponse("error")
               /\ UNCHANGED lastIndex
        ELSE LET r == analyzeErrorWith(MessageOrEmpty(d), 1, lastIndex) IN
             /\ deployment' = d
             /\ metrics' = m
             /\ errorPattern' = r.result
             /\ lastIndex' = r.lastIndex
             /\ shouldRetry' = calculateRetryRecommendation(r.result, m)
             /\ response' = TextResponse("report")

\* case "format-error-for-ai": the same fetches and classification, then a prompt
FormatErrorForAI(d, failAt, m) ==
  /\ pc = "idle"
  /\ IF accessToken = EmptyToken THEN ConstructorThrows("format-error-for-ai")
     ELSE
     /\ pc' = "done"
     /\ call' = "format-error-for-ai"
     /\ UNCHANGED <<earlier, accessToken, contentMetrics, fetches, promiseAll>>
     /\ analysis' = Null
     /\ deployments' = Null
     /\ shouldRetry' = Null
     /\ IF failAt = 1
          THEN /\ deployment' = Null
               /\ errorPattern' = Null /\ metrics' = Null
               /\ response' = TextResponse("error")
               /\ UNCHANGED lastIndex
        ELSE IF failAt \in {2, 3}
          THEN /\ deployment' = d
               /\ errorPattern' = Null /\ metrics' = Null
               /\ response' = TextResponse("error")
               /\ UNCHANGED lastIndex
        ELSE LET r == analyzeErrorWith(MessageOrEmpty(d), 1, lastIndex) IN
             /\ deployment' = d
             /\ metrics' = m
             /\ errorPattern' = r.result
             /\ lastIndex' = r.lastIndex
             /\ response' = TextResponse(IF r.result = Null THEN "generic-prompt"
                                                            ELSE "pattern-prompt")

\* case "analyze-deployment-error" of the ErrorAnalyzer server variant
AnalyzeDeploymentError(d, failed) ==
  /\ pc = "idle"
  /\ IF accessToken = EmptyToken THEN ConstructorThrows("analyze-deployment-error")
     ELSE
     /\ pc' = "done"
     /\ call' = "analyze-deployment-error"
     /\ UNCHANGED <<lastIndex, earlier, accessToken, contentMetrics, fetches, promiseAll>>
     /\ deployments' = Null
     /\ errorPattern' = Null /\ metrics' = Null /\ shouldRetry' = Null
     /\ IF failed
          THEN /\ deployment' = Null
               /\ analysis' = Null
               /\ response' = TextResponse("error")
        ELSE /\ deployment' = d
             /\ analysis' = analyzeDeploymentError(d)
             /\ response' = TextResponse("report")

\* case "get-build-metrics": one fetch of the deployment list, the metrics
\* computed from it, a report; a failed fetch goes to the catch block
GetBuildMetrics(w, failed) ==
  /\ pc = "idle"
  /\ IF accessToken = EmptyToken THEN ConstructorThrows("get-build-metrics")
     ELSE
     /\ pc' = "done"
     /\ call' = "get-build-metrics"
     /\ UNCHANGED <<lastIndex, earlier, accessToken, contentMetrics, fetches, promiseAll>>
     /\ deployment' = Null /\ errorPattern' = Null /\ shouldRetry' = Null /\ analysis' = Null
     /\ IF failed
          THEN /\ deployments' = Null
               /\ metrics' = Null
               /\ response' = TextResponse("error")
        ELSE /\ deployments' = w
             /\ metrics' = getBuildMetrics(w, Now)
             /\ response' = TextResponse("report")

\* case "analyze-content-performance": one fetch of the deployment list, the
\* content metrics computed from it, a report
AnalyzeContentPerformance(w, failed) ==
  /\ pc = "idle"
  /\ IF accessToken = EmptyToken THEN ConstructorThrows("analyze-content-performance")
     ELSE
     /\ pc' = "done"
     /\ call' = "analyze-content-performance"
     /\ UNCHANGED <<lastIndex, earlier, accessToken, fetches, promiseAll>>
     /\ deployment' = Null /\ errorPattern' = Null /\ shouldRetry' = Null
     /\ analysis' = Null /\ metrics' = Null
     /\ IF failed
          THEN /\ deployments' = Null
               /\ contentMetrics' = Null
               /\ response' = TextResponse("error")
        ELSE /\ deployments' = w
             /\ contentMetrics' = analyzeContentImpact(w)
             /\ response' = TextResponse("report")

\* nothing is fetched or computed by this invocation
NoLocals ==
  /\ deployment' = Null /\ deployments' = Null /\ errorPattern' = Null
  /\ metrics' = Null /\ shouldRetry' = Null /\ analysis' = Null
  /\ contentMetrics' = Null

\* case "hello": a fixed text
Hello ==
  /\ pc = "idle"
  /\ IF accessToken = EmptyToken THEN ConstructorThrows("hello")
     ELSE
     /\ pc' = "done"
     /\ call' = "hello"
     /\ NoLocals
     /\ response' = TextResponse("greeting")
     /\ UNCHANGED <<lastIndex, earlier, accessToken, fetches, promiseAll>>

\* names that no case of the switch has
UnknownTools == {"deploy-site", ""}

\* default: throw new Error(`Unknown tool: ...`), caught by the outer catch
UnknownTool(name) ==
  /\ pc = "idle"
  /\ IF accessToken = EmptyToken THEN ConstructorThrows(name)
     ELSE
     /\ pc' = "done"
     /\ call' = name
     /\ NoLocals
     /\ response' = [type |-> "text", kind |-> "unexpected-error",
                     message |-> "Unknown tool: " \o name]
     /\ UNCHANGED <<lastIndex, earlier, accessToken, fetches, promiseAll>>

\* the handler has returned; its locals are gone and the server waits for
\* the next request
NextRequest ==
  /\ pc = "done"
  /\ pc' = "idle"
  /\ call' = "none"
  /\ deployment' = Null
  /\ deployments' = Null
  /\ errorPattern' = Null
  /\ metrics' = Null
  /\ shouldRetry' = Null
  /\ analysis' = Null
  /\ response' = Null
  /\ contentMetrics' = Null
  /\ fetches' = Null
  /\ promiseAll' = Null
  /\ UNCHANGED <<lastIndex, earlier, accessToken>>

\* a request is handled only when the server is idle; one handler runs at a time
Next ==
  \/ /\ pc = "idle"
     /\ \E ep \in ErrorPatterns \cup {Null}, m \in MetricsValues \cup {Null} :
          CalculateRetryRecommendation(ep, m)
  \/ /\ pc = "idle"
     /\ \E d \in Deployments, failAt \in 0..3, m \in FetchedMetrics :
          SmartRetryAnalysis(d, failAt, m)
  \/ /\ pc = "idle"
     /\ \E d \in Deployments, failAt \in 0..3, m \in FetchedMetrics :
          FormatErrorForAI(d, failAt, m)
  \/ /\ pc = "idle"
     /\ \E d \in Deployments, failed \in BOOLEAN :
          AnalyzeDeploymentError(d, failed)
  \/ /\ pc = "idle"
     /\ \E w \in Windows, failed \in BOOLEAN :
          GetBuildMetrics(w, failed)
  \/ /\ pc = "idle"
     /\ \E w \in ContentWindows, failed \in BOOLEAN :
          AnalyzeContentPerformance(w, failed)
  \/ Hello
  \/ /\ pc = "idle"
     /\ \E name \in UnknownTools : UnknownTool(name)
  \/ NextRequest

Spec == Init /\ [][Next]_vars

----------------------------------------------------------------------------
\* The classifiers called again and again

\* the records the classifiers are called on, one after the other
RepeatDeployments ==
  {[state |-> st, error_message |-> msg] :
     st \in DeploymentStates, msg \in MessagesOfLen(0) \cup MessagesOfLen(1) \cup TwoRuleMessages}
  \cup {[state |-> st] : st \in DeploymentStates}

\* the calls counted after a remembered classification
MaxCalls == 2

OneMoreCall(e) ==
  IF e = Null THEN Null
  ELSE [e EXCEPT !.calls = IF @ < MaxCalls THEN @ + 1 ELSE @]

\* ErrorPatternAnalyzer.analyzeError on the message of d, with the pattern
\* objects as the calls before have left them
AnalyzeErrorCall(d) ==
  LET r == analyzeErrorWith(MessageOrEmpty(d), 1, lastIndex) IN
  /\ pc = "idle"
  /\ pc' = "done"
  /\ call' = "analyzeError"
  /\ deployment' = d
  /\ errorPattern' = r.result
  /\ lastIndex' = r.lastIndex
  /\ analysis' = Null
  /\ earlier' = OneMoreCall(earlier)
  /\ UNCHANGED <<deployments, metrics, shouldRetry, response,
                 accessToken, contentMetrics, fetches, promiseAll>>

\* ErrorAnalyzer.analyzeDeploymentError on d
AnalyzeDeploymentErrorCall(d) ==
  /\ pc = "idle"
  /\ pc' = "done"
  /\ call' = "analyzeDeploymentError"
  /\ deployment' = d
  /\ analysis' = analyzeDeploymentError(d)
  /\ errorPattern' = Null
  /\ earlier' = OneMoreCall(earlier)
  /\ UNCHANGED <<deployments, metrics, shouldRetry, response, lastIndex,
                 accessToken, contentMetrics, fetches, promiseAll>>

\* what the call that has just returned gave back
Returned == IF call = "analyzeError" THEN errorPattern ELSE analysis

\* the classification that has just been made is kept for comparison
Remember ==
  /\ pc = "done"
  /\ call \in {"analyzeError", "analyzeDeploymentError"}
  /\ earlier' = [call |-> call, deployment |-> deployment, result |-> Returned, calls |-> 0]
  /\ UNCHANGED <<pc, call, deployment, deployments, errorPattern, metrics, shouldRetry,
                 analysis, response, lastIndex,
                 accessToken, contentMetrics, fetches, promiseAll>>

NextRepeat ==
  \/ /\ pc = "idle"
     /\ \E d \in RepeatDeployments : AnalyzeErrorCall(d)
  \/ /\ pc = "idle"
     /\ \E d \in RepeatDeployments : AnalyzeDeploymentErrorCall(d)
  \/ Remember
  \/ NextRequest

\* the classifiers are called in a process that has its token
InitRepeat == Init /\ accessToken # EmptyToken

SpecRepeat == InitRepeat /\ [][NextRepeat]_vars

----------------------------------------------------------------------------
\* Two fetches awaited together (SpecConcurrent)

\* the statuses of the responses that are not ok
HttpErrors == {"404", "500"}

\* makeRequest: throw new Error(`HTTP error! status: ${response.status}`)
HttpError(status) == <<"HTTP error! status: ", status>>

\* the catch blocks of the client's methods put their own words before the
\* message of the error they caught
getSitesError(status) == <<"Failed to fetch sites: ">> \o HttpError(status)

getDeploymentsError(status) == <<"Failed to fetch deployments: ">> \o HttpError(status)

\* getBuildMetrics fetches the deployment list itself
getBuildMetricsError(status) ==
  <<"Failed to fetch build metrics: ">> \o getDeploymentsError(status)

\* the states of a promise
Pending == [status |-> "pending"]

Fulfilled(value) == [status |-> "fulfilled", value |-> value]

Rejected(reason) == [status |-> "rejected", reason |-> reason]

MaxStatus == 2

\* the deployment lists the status tools are given
StatusWindows ==
  {<<>>} \cup {UniformWindow(n, f) : n \in 1..MaxStatus, f \in 0..MaxStatus}

\* what the promise of getDeployments(siteId, limit) can settle to: the
\* request asks for at most limit records
DeploymentsOutcomes(limit) ==
  {Fulfilled(w) : w \in {x \in StatusWindows : Len(x) <= limit}}
  \cup {Rejected(getDeploymentsError(st)) : st \in HttpErrors}

\* what the promise of getBuildMetrics(siteId) can settle to
MetricsOutcomes ==
  {Fulfilled(m) : m \in FetchedMetrics}
  \cup {Rejected(getBuildMetricsError(st)) : st \in HttpErrors}

\* the per_page of the list the tool asks for
LimitOf(name) == IF name = "get-advanced-deployment-status" THEN 10 ELSE 1

\* Promise.all of the two promises after promise f of fs has settled to
\* outcome: rejected with the reason of the first promise that rejects,
\* fulfilled with both values once both are fulfilled, settled only once
PromiseAll(p, fs, f, outcome) ==
  LET other == IF f = "deployments" THEN fs.metrics ELSE fs.deployments IN
  IF p.status # "pending" THEN p
  ELSE IF outcome.status = "rejected" THEN Rejected(outcome.reason)
  ELSE IF other.status = "fulfilled"
    THEN Fulfilled(IF f = "deployments" THEN <<outcome.value, other.value>>
                   ELSE <<other.value, outcome.value>>)
  ELSE p

CountState(w, st) == Len(SelectSeq(w, LAMBDA d : d.state = st))

\* the summary and the report of get-advanced-deployment-status
AdvancedReport(w, m) ==
  [ type |-> "text", kind |-> "report",
    summary |-> [ totalDeployments |-> Len(w),
                  successfulDeployments |-> CountState(w, "ready"),
                  failedDeployments |-> CountState(w, "error"),
                  buildMinutesAlert |-> m.monthlyLimitRemaining < 50 ],
    metrics |-> m,
    recentDeployments |-> SubSeq(w, 1, IF Len(w) < 5 THEN Len(w) ELSE 5) ]

\* what getDigitalZangoCalendarStatus returns and the tool reports
CalendarReport(site, w, m) ==
  [ type |-> "text", kind |-> "report",
    site |-> site,
    latestDeployment |-> IF Len(w) > 0 THEN w[1] ELSE Null,
    metrics |-> m ]

\* the text of a catch block: its words, then error.message
ErrorResponse(words, reason) ==
  [type |-> "text", kind |-> "error", message |-> words \o reason]

AdvancedStatusFailed == <<"Error retrieving advanced deployment status: ">>

CalendarFailed ==
  <<"Error monitoring DigitalZango calendar: ",
    "Failed to get DigitalZango calendar status: ">>

\* variant: a rejected fetch is left out and the report is made of what the
\* other one gave
HandlerResponse_PartialReport(name, p) ==
  IF p.status = "fulfilled"
    THEN IF name = "get-advanced-deployment-status"
           THEN AdvancedReport(p.value[1], p.value[2])
         ELSE CalendarReport("calendar", p.value[1], p.value[2])
  ELSE [type |-> "text", kind |-> "report", partial |-> TRUE]

\* what tool name answers once the promise p of its Promise.all has settled
HandlerResponse(name, p) ==
  IF p.status = "fulfilled"
    THEN IF name = "get-advanced-deployment-status"
           THEN AdvancedReport(p.value[1], p.value[2])
         ELSE CalendarReport("calendar", p.value[1], p.value[2])
  ELSE ErrorResponse(IF name = "get-advanced-deployment-status"
                       THEN AdvancedStatusFailed ELSE CalendarFailed,
                     p.reason)

\* both fetches are issued and the handler awaits their Promise.all
IssueBoth(name) ==
  /\ pc' = "awaiting"
  /\ call' = name
  /\ fetches' = [deployments |-> Pending, metrics |-> Pending, first |-> "none"]
  /\ promiseAll' = Pending
  /\ response' = Null
  /\ UNCHANGED <<deployment, deployments, errorPattern, metrics, shouldRetry, analysis,
                 lastIndex, earlier, accessToken, contentMetrics>>

\* case "get-advanced-deployment-status", up to its await
GetAdvancedDeploymentStatus ==
  /\ pc = "idle"
  /\ IF accessToken = EmptyToken
       THEN ConstructorThrows("get-advanced-deployment-status")
     ELSE IssueBoth("get-advanced-deployment-status")

\* what getSites gave: an error, a list without the calendar site, a list with it
SitesOutcomes ==
  {Rejected(getSitesError(st)) : st \in HttpErrors}
  \cup {Fulfilled("none"), Fulfilled("calendar")}

\* case "monitor-digitalzango-calendar": getSites is awaited alone; without a
\* calendar site nothing else is fetched
MonitorDigitalZangoCalendar(sites) ==
  /\ pc = "idle"
  /\ IF accessToken = EmptyToken
       THEN ConstructorThrows("monitor-digitalzango-calendar")
     ELSE IF sites.status = "fulfilled" /\ sites.value = "calendar"
       THEN IssueBoth("monitor-digitalzango-calendar")
     ELSE /\ pc' = "done"
          /\ call' = "monitor-digitalzango-calendar"
          /\ response' = IF sites.status = "rejected"
                           THEN ErrorResponse(CalendarFailed, sites.reason)
                         ELSE TextResponse("site-not-found")
          /\ UNCHANGED <<deployment, deployments, errorPattern, metrics, shouldRetry,
                         analysis, lastIndex, earlier, accessToken, contentMetrics,
                         fetches, promiseAll>>

\* the response of fetch f arrives: its promise settles, and Promise.all with
\* it; the handler may have returned already, then nothing reads it
SettleFetch(f, outcome) ==
  /\ pc \in {"awaiting", "done"}
  /\ fetches # Null
  /\ fetches[f].status = "pending"
  /\ fetches' = [fetches EXCEPT ![f] = outcome,
                                !.first = IF @ = "none" THEN f ELSE @]
  /\ promiseAll' = PromiseAll(promiseAll, fetches, f, outcome)
  /\ UNCHANGED <<pc, call, deployment, deployments, errorPattern, metrics, shouldRetry,
                 analysis, response, lastIndex, earlier, accessToken, contentMetrics>>

\* the await is over: the handler goes on with both values, or its catch
\* block with the reason
ResumeHandler ==
  /\ pc = "awaiting"
  /\ promiseAll.status # "pending"
  /\ pc' = "done"
  /\ response' = HandlerResponse(call, promiseAll)
  /\ deployments' = IF promiseAll.status = "fulfilled" THEN promiseAll.value[1] ELSE Null
  /\ metrics' = IF promiseAll.status = "fulfilled" THEN promiseAll.value[2] ELSE Null
  /\ UNCHANGED <<call, deployment, errorPattern, shouldRetry, analysis, lastIndex,
                 earlier, accessToken, contentMetrics, fetches, promiseAll>>

BothSettled ==
  /\ fetches # Null
  /\ fetches.deployments.status # "pending"
  /\ fetches.metrics.status # "pending"

\* an invocation whose two fetches have both come back is kept for comparison
RememberOutcome ==
  /\ pc = "done"
  /\ BothSettled
  /\ earlier' = [call |-> call, fetches |-> fetches, response |-> response]
  /\ UNCHANGED <<pc, call, deployment, deployments, errorPattern, metrics, shouldRetry,
                 analysis, response, lastIndex, accessToken, contentMetrics,
                 fetches, promiseAll>>

NextConcurrent ==
  \/ GetAdvancedDeploymentStatus
  \/ /\ pc = "idle"
     /\ \E sites \in SitesOutcomes : MonitorDigitalZangoCalendar(sites)
  \/ /\ pc \in {"awaiting", "done"}
     /\ \E outcome \in DeploymentsOutcomes(LimitOf(call)) : SettleFetch("deployments", outcome)
  \/ /\ pc \in {"awaiting", "done"}
     /\ \E outcome \in MetricsOutcomes : SettleFetch("metrics", outcome)
  \/ ResumeHandler
  \/ RememberOutcome
  \/ NextRequest

SpecConcurrent == Init /\ [][NextConcurrent]_vars

----------------------------------------------------------------------------
\* Properties of the retry recommendation

Range(seq) == {seq[i] : i \in 1..Len(seq)}

\* calculateRetryRecommendation has returned a verdict for a classification
\* and metrics
Decided ==
  /\ pc = "done"
  /\ shouldRetry # Null
  /\ ~shouldRetry.threw
  /\ errorPattern # Null
  /\ metrics # Null

\* the quota leaves room for a retry of this classification
QuotaSufficient ==
  /\ metrics.monthlyLimitRemaining >= 30
  /\ metrics.monthlyLimitRemaining >= 2 * errorPattern.buildTimeImpact

\* C1: with fewer than 30 build minutes remaining the recommendation is
\* never to retry, for every classification and every failure rate.
C1_QuotaFloorOverrides ==
  (Decided /\ metrics.monthlyLimitRemaining < 30) => shouldRetry.recommended = FALSE

C1_Witness ==
  /\ Decided
  /\ errorPattern.severity = "low"
  /\ errorPattern.buildTimeImpact = 1
  /\ metrics.monthlyLimitRemaining = 29
  /\ metrics.failureRate = 0
  /\ shouldRetry.recommended = FALSE
  /\ shouldRetry.reasons = <<QuotaReason>>

\* C2: whenever the failure rate is above 30 the reasons of the verdict
\* contain the high-failure-rate reason, with or without a classification.
C2_FailureRateReasonAlwaysReported ==
  (/\ pc = "done"
   /\ shouldRetry # Null
   /\ ~shouldRetry.threw
   /\ metrics # Null
   /\ metrics.failureRate > 30)
  => FailureRateReason \in Range(shouldRetry.reasons)

\* C3: with a classification, a failure rate above 30 forces "do not retry"
\* and its reason comes after the reason of the earlier steps, which is
\* kept; a failure rate of exactly 30 adds nothing.
C3_FailureRateOverrideIsAdditive ==
  /\ (Decided /\ metrics.failureRate > 30) =>
       /\ shouldRetry.recommended = FALSE
       /\ Len(shouldRetry.reasons) >= 1
       /\ shouldRetry.reasons[Len(shouldRetry.reasons)] = FailureRateReason
       /\ errorPattern.severity \in {"low", "medium", "high", "critical"} =>
            /\ Len(shouldRetry.reasons) = 2
            /\ shouldRetry.reasons[1] \in
                 {QuotaReason, BudgetReason, FixableReason, TemporaryReason,
                  CodeReason, CriticalReason}
       /\ (QuotaSufficient /\ errorPattern.severity \in {"low", "medium"}) =>
            shouldRetry.reasons = <<FixableReason, FailureRateReason>>
  /\ (Decided /\ metrics.failureRate = 30) =>
       FailureRateReason \notin Range(shouldRetry.reasons)

C3_Witness ==
  /\ Decided
  /\ errorPattern.severity = "low"
  /\ metrics.monthlyLimitRemaining = 200
  /\ metrics.failureRate = 31
  /\ shouldRetry.recommended = FALSE
  /\ shouldRetry.reasons = <<FixableReason, FailureRateReason>>

\* C4: severity high with sufficient quota and a failure rate of at most 30
\* is retried exactly when the category is Network Issue or Dependency
\* Conflict.
C4_HighRetriesOnlyTransient ==
  (/\ Decided
   /\ errorPattern.severity = "high"
   /\ QuotaSufficient
   /\ metrics.failureRate <= 30)
  => (shouldRetry.recommended = TRUE
        <=> errorPattern.category \in {"Network Issue", "Dependency Conflict"})

\* the scenario: "npm ERR! peer dep conflict", 200 minutes left, failure rate 10
C4_Witness ==
  /\ Decided
  /\ call = "smart-retry-analysis"
  /\ errorPattern.severity = "high"
  /\ errorPattern.category = "Dependency Conflict"
  /\ metrics.monthlyLimitRemaining = 200
  /\ metrics.failureRate = 10
  /\ shouldRetry.recommended = TRUE

\* C5: severity critical is never retried, whatever the quota and the
\* failure rate.
C5_CriticalNeverRetried ==
  (Decided /\ errorPattern.severity = "critical") => shouldRetry.recommended = FALSE

C5_Witness ==
  /\ Decided
  /\ errorPattern.severity = "critical"
  /\ metrics.monthlyLimitRemaining = 200
  /\ metrics.failureRate = 0
  /\ shouldRetry.recommended = FALSE
  /\ shouldRetry.reasons = <<CriticalReason>>

\* C6: severity low or medium with sufficient quota and a failure rate of at
\* most 30 is retried, with the single reason that a retry is likely to fix it.
C6_LowMediumRetried ==
  (/\ Decided
   /\ errorPattern.severity \in {"low", "medium"}
   /\ QuotaSufficient
   /\ metrics.failureRate <= 30)
  => /\ shouldRetry.recommended = TRUE
     /\ shouldRetry.reasons = <<FixableReason>>

C6_Witness ==
  /\ Decided
  /\ errorPattern.severity = "medium"
  /\ errorPattern.category = "Build Error"
  /\ metrics.monthlyLimitRemaining = 30
  /\ metrics.failureRate = 30
  /\ shouldRetry.recommended = TRUE

\* C7: without a classification the call returns normally, recommends no
\* retry and gives the manual-investigation reason, whatever the metrics.
C7_NoClassificationNoRetry ==
  (/\ pc = "done"
   /\ call \in {"calculateRetryRecommendation", "smart-retry-analysis"}
   /\ shouldRetry # Null
   /\ errorPattern = Null)
  => /\ ~shouldRetry.threw
     /\ shouldRetry.recommended = FALSE
     /\ UnknownReason \in Range(shouldRetry.reasons)

C7_Witness ==
  /\ pc = "done"
  /\ shouldRetry # Null
  /\ errorPattern = Null
  /\ metrics # Null
  /\ metrics.monthlyLimitRemaining = 200
  /\ metrics.failureRate = 0
  /\ ~shouldRetry.threw
  /\ shouldRetry.recommended = FALSE

\* C8: with a classification, at least 30 minutes remaining but fewer than
\* twice the estimated cost, the verdict is "do not retry" with the
\* insufficient-budget reason and no reason of the severity switch.
C8_InsufficientBudget ==
  (/\ Decided
   /\ metrics.monthlyLimitRemaining >= 30
   /\ metrics.monthlyLimitRemaining < 2 * errorPattern.buildTimeImpact)
  => /\ shouldRetry.recommended = FALSE
     /\ shouldRetry.reasons[1] = BudgetReason
     /\ Range(shouldRetry.reasons) \cap
          {FixableReason, TemporaryReason, CodeReason, CriticalReason} = {}

C8_Witness ==
  /\ Decided
  /\ errorPattern.severity = "low"
  /\ errorPattern.buildTimeImpact = 20
  /\ metrics.monthlyLimitRemaining = 39
  /\ metrics.failureRate = 0
  /\ shouldRetry.reasons = <<BudgetReason>>

\* the classifications that analyzeError can return: the rows of the table
TableClassifications ==
  {Classification(NETLIFY_ERROR_PATTERNS[i]) : i \in 1..Len(NETLIFY_ERROR_PATTERNS)}

\* calculateRetryRecommendation has returned (it did not throw)
VerdictReturned ==
  /\ pc = "done"
  /\ shouldRetry # Null
  /\ ~shouldRetry.threw

\* C28: a verdict "retry" is returned only with a classification, at least 30
\* minutes and at least twice the estimated cost remaining, a failure rate of
\* at most 30, a severity low or medium or high with a transient category,
\* and exactly one reason; for a classification of the rule table the
\* reasons are never empty.
C28_RetryOnlyWhenAllChecksPass ==
  /\ (VerdictReturned /\ shouldRetry.recommended) =>
        /\ errorPattern # Null
        /\ metrics # Null
        /\ metrics.monthlyLimitRemaining >= 30
        /\ metrics.monthlyLimitRemaining >= 2 * errorPattern.buildTimeImpact
        /\ metrics.failureRate <= 30
        /\ \/ errorPattern.severity \in {"low", "medium"}
           \/ /\ errorPattern.severity = "high"
              /\ errorPattern.category \in {"Network Issue", "Dependency Conflict"}
        /\ Len(shouldRetry.reasons) = 1
  /\ (VerdictReturned /\ errorPattern \in TableClassifications) =>
        Len(shouldRetry.reasons) >= 1

\* a timeout message, classified Network Issue by the table, is retried
C28_Witness ==
  /\ VerdictReturned
  /\ call = "smart-retry-analysis"
  /\ errorPattern \in TableClassifications
  /\ errorPattern.category = "Network Issue"
  /\ metrics.failureRate <= 30
  /\ shouldRetry.recommended
  /\ Len(shouldRetry.reasons) = 1

\* C29: for a classification of the rule table (every buildTimeImpact is at
\* most 5) the insufficient-budget branch is never the one taken, because
\* fewer than twice the cost remaining is already below the 30-minute floor;
\* and the transient exception for a Network Issue of severity high is never
\* reached, because the table gives Network Issue the severity medium.
C29_BudgetAndNetworkBranchesDead ==
  (Decided /\ errorPattern \in TableClassifications) =>
    /\ errorPattern.buildTimeImpact <= 5
    /\ BudgetReason \notin Range(shouldRetry.reasons)
    /\ metrics.monthlyLimitRemaining < 2 * errorPattern.buildTimeImpact
         => shouldRetry.reasons[1] = QuotaReason
    /\ ~(errorPattern.category = "Network Issue" /\ errorPattern.severity = "high")
    /\ TemporaryReason \in Range(shouldRetry.reasons)
         => errorPattern.category = "Dependency Conflict"

\* a classification of the table with fewer minutes remaining than twice
\* its cost: the floor answers
C29_Witness ==
  /\ Decided
  /\ errorPattern \in TableClassifications
  /\ errorPattern.buildTimeImpact = 5
  /\ metrics.monthlyLimitRemaining = 0
  /\ shouldRetry.reasons[1] = QuotaReason

----------------------------------------------------------------------------
\* Properties of the classification

TS2322 == <<"T","S","2","3","2","2",":"," ","t","y","p","e"," ","m","i","s","m","a","t","c","h">>

\* a handler has fetched everything and classified the message of the record
Classified ==
  /\ pc = "done"
  /\ call \in {"smart-retry-analysis", "format-error-for-ai"}
  /\ deployment # Null
  /\ response.kind # "error"

\* C9: the message "TS2322: type mismatch" is classified as TypeScript
\* Error with severity high, and its retry decision is "do not retry".
C9_TS2322IsTypeScriptError ==
  (Classified /\ MessageOrEmpty(deployment) = TS2322)
  => /\ errorPattern # Null
     /\ errorPattern.category = "TypeScript Error"
     /\ errorPattern.severity = "high"
     /\ shouldRetry # Null => shouldRetry.recommended = FALSE

\* C10: a record in state `stopped` is classified as Build Timeout with
\* severity medium on every classification path, whatever its error text.
C10_StoppedIsBuildTimeout ==
  /\ (Classified /\ deployment.state = "stopped")
       => /\ errorPattern # Null
          /\ errorPattern.category = "Build Timeout"
          /\ errorPattern.severity = "medium"
  /\ (/\ pc = "done"
      /\ call = "analyze-deployment-error"
      /\ deployment # Null
      /\ deployment.state = "stopped")
       => analysis = Analysis("Build Timeout", "medium")

----------------------------------------------------------------------------
\* Properties of the build metrics

RECURSIVE SumSeq(_)
SumSeq(xs) == IF Len(xs) = 0 THEN 0 ELSE xs[1] + SumSeq(Tail(xs))

\* the integer nearest to num / den (den > 0, num >= 0), halves upwards
Nearest(num, den) ==
  CHOOSE k \in 0..(num \div den + 1) :
    /\ 2 * den * k <= 2 * num + den
    /\ 2 * num + den < 2 * den * (k + 1)

\* the least number of whole minutes that cover a number of seconds
WholeMinutes(seconds) ==
  CHOOSE m \in (seconds \div 60)..(seconds \div 60 + 1) :
    /\ 60 * m >= seconds
    /\ 60 * (m - 1) < seconds

\* get-build-metrics has fetched a deployment list and reported its metrics
MetricsReported ==
  /\ pc = "done"
  /\ call = "get-build-metrics"
  /\ response.kind = "report"
  /\ metrics # Null

\* the records getBuildMetrics hands to its calculate* helpers
Counted == MonthlyDeployments(deployments, Now)

\* the counted records that carry both timestamps
Eligible == SelectSeq(Counted, LAMBDA d : "published_at" \in DOMAIN d)

\* C16: the average build duration is the mean, in minutes, of published_at
\* minus created_at over the records that have both timestamps (a record
\* without published_at is in neither the sum nor the divisor), and 0 when
\* no record is eligible.
C16_AverageOverEligibleOnly ==
  MetricsReported =>
    metrics.averageBuildTime =
      IF Len(Eligible) = 0 THEN 0
      ELSE Nearest(SumSeq([i \in 1..Len(Eligible) |->
                             Eligible[i].published_at.time - Eligible[i].created_at.time]),
                   60 * Len(Eligible))

\* C17: the build minutes used are the sum, over the counted records, of the
\* deploy time rounded up to whole minutes, 0 for a record without deploy
\* time, and never negative.
C17_MinutesUsedIsSumOfCeilings ==
  MetricsReported =>
    /\ metrics.buildMinutesUsed =
         SumSeq([i \in 1..Len(Counted) |->
                   IF "deploy_time" \in DOMAIN Counted[i]
                     THEN WholeMinutes(Counted[i].deploy_time) ELSE 0])
    /\ metrics.buildMinutesUsed >= 0

C17_Witness ==
  /\ MetricsReported
  /\ Len(Counted) = 2
  /\ "deploy_time" \notin DOMAIN Counted[1]
  /\ "deploy_time" \in DOMAIN Counted[2]
  /\ Counted[2].deploy_time = 61
  /\ metrics.buildMinutesUsed = 2

\* C18: the remaining minutes are 300 minus the minutes used for every
\* window; above 300 minutes used they are negative and still reported.
C18_RemainingIsQuotaMinusUsed ==
  (/\ pc = "done"
   /\ call = "get-build-metrics"
   /\ response.kind = "report")
  => /\ metrics # Null
     /\ metrics.monthlyLimitRemaining = 300 - metrics.buildMinutesUsed
     /\ metrics.buildMinutesUsed > 300 => metrics.monthlyLimitRemaining < 0

C18_Witness ==
  /\ MetricsReported
  /\ metrics.buildMinutesUsed = 400
  /\ metrics.monthlyLimitRemaining = -100

\* C19: the failure rate is the rounded percentage of the records in state
\* `error` (no other state counts), 0 for no records, and within 0..100.
C19_FailureRateIsRoundedErrorShare ==
  MetricsReported =>
    LET errors == Cardinality({i \in 1..Len(Counted) : Counted[i].state = "error"}) IN
    /\ metrics.failureRate =
         IF Len(Counted) = 0 THEN 0 ELSE Nearest(100 * errors, Len(Counted))
    /\ metrics.failureRate \in 0..100

\* the scenario: 10 deployments, 3 of them in state `error`
C19_Witness ==
  /\ MetricsReported
  /\ Len(deployments) = 10
  /\ Cardinality({i \in 1..10 : deployments[i].state = "error"}) = 3
  /\ metrics.failureRate = 30

\* the other witness of C19: a failed or stopped record is not counted
C19_OtherStatesWitness ==
  /\ MetricsReported
  /\ Len(Counted) = 2
  /\ Counted[1].state = "failed"
  /\ Counted[2].state = "stopped"
  /\ metrics.failureRate = 0

\* C20 as stated: an empty window gives metrics that are all 0.
C20_EmptyWindowAllZero ==
  (/\ pc = "done"
   /\ call = "get-build-metrics"
   /\ response.kind = "report"
   /\ Len(deployments) = 0)
  => /\ metrics # Null
     /\ metrics.averageBuildTime = 0
     /\ metrics.buildMinutesUsed = 0
     /\ metrics.monthlyLimitRemaining = 0
     /\ metrics.failureRate = 0

\* C20 amended: an empty window is reported, not failed, with average
\* duration, minutes used and failure rate 0 and the whole quota of 300
\* minutes remaining.
C20_EmptyWindowZeroUsage ==
  (/\ pc = "done"
   /\ call = "get-build-metrics"
   /\ response.kind = "report"
   /\ Len(deployments) = 0)
  => /\ metrics # Null
     /\ metrics.averageBuildTime = 0
     /\ metrics.duration = 0
     /\ metrics.buildMinutesUsed = 0
     /\ metrics.monthlyLimitRemaining = 300
     /\ metrics.failureRate = 0

C20_Witness ==
  /\ MetricsReported
  /\ Len(deployments) = 0
  /\ metrics.monthlyLimitRemaining = 300

\* the records of the window created in the calendar month of the request:
\* the same month of the same year
InCalendarMonth ==
  SelectSeq(deployments, LAMBDA d : /\ d.created_at.year = Now.year
                                    /\ d.created_at.month = Now.month)

\* C23: the build minutes used count only the records created in the current
\* calendar month; a record of another month, the same month number of an
\* earlier year included, adds 0 minutes.
C23_MinutesOfCalendarMonthOnly ==
  MetricsReported =>
    metrics.buildMinutesUsed =
      SumSeq([i \in 1..Len(InCalendarMonth) |->
                IF "deploy_time" \in DOMAIN InCalendarMonth[i]
                  THEN WholeMinutes(InCalendarMonth[i].deploy_time) ELSE 0])

\* C24: the failure rate and the average build duration are taken over every
\* record of the fetched window, the records of earlier months included.
C24_RatesOverWholeWindow ==
  MetricsReported =>
    LET errors == Cardinality({i \in 1..Len(deployments) : deployments[i].state = "error"}) IN
    /\ metrics.failureRate =
         IF Len(deployments) = 0 THEN 0 ELSE Nearest(100 * errors, Len(deployments))
    /\ metrics.averageBuildTime = calculateAverageDuration(deployments)

----------------------------------------------------------------------------
\* Properties of the rule order and of the fallbacks

\* the rules of the table that match the message of the classified record
MatchingRules ==
  {i \in 1..Len(NETLIFY_ERROR_PATTERNS) :
     test(NETLIFY_ERROR_PATTERNS[i].pattern, MessageOrEmpty(deployment))}

\* the keyword groups of categorizeError, in the order of its branches
KeywordRules == <<
  [category |-> "Dependency Error",
   keywords |-> {<<"n","p","m">>, <<"y","a","r","n">>, <<"p","a","c","k","a","g","e">>}],
  [category |-> "Build Command Error",
   keywords |-> {<<"c","o","m","m","a","n","d"," ","n","o","t"," ","f","o","u","n","d">>,
                 <<"s","c","r","i","p","t">>}],
  [category |-> "Environment Error",
   keywords |-> {<<"n","o","d","e">>, <<"v","e","r","s","i","o","n">>,
                 <<"e","n","g","i","n","e">>}],
  [category |-> "File System Error",
   keywords |-> {<<"f","i","l","e">>, <<"p","a","t","h">>,
                 <<"d","i","r","e","c","t","o","r","y">>}] >>

\* the keyword groups with a keyword in the message of the analysed record
MatchingKeywordRules ==
  {i \in 1..Len(KeywordRules) :
     \E k \in KeywordRules[i].keywords :
        includes(toLowerCase(MessageOrEmpty(deployment)), k)}

Least(S) == CHOOSE i \in S : \A j \in S : i <= j

\* analyze-deployment-error has fetched the record and analysed it
Analysed ==
  /\ pc = "done"
  /\ call = "analyze-deployment-error"
  /\ response.kind = "report"

\* C11: first match wins: a message that matches several rules is given the
\* rule that comes first, in the pattern table and in the keyword branches.
C11_FirstMatchWins ==
  /\ (Classified /\ MatchingRules # {}) =>
        errorPattern = Classification(NETLIFY_ERROR_PATTERNS[Least(MatchingRules)])
  /\ (Analysed /\ deployment.state \in {"error", "failed"} /\ MatchingKeywordRules # {}) =>
        analysis.category = KeywordRules[Least(MatchingKeywordRules)].category

\* the scenario: a message with "npm ERR! peer dep" and "out of memory"
C11_Witness ==
  /\ Classified
  /\ {1, 2} \subseteq MatchingRules
  /\ errorPattern # Null
  /\ errorPattern.category = "Dependency Conflict"

\* the order of the rule families as C12 gives it, by category of the table:
\* dependency, build command not found, memory limit, network, type
\* checking, framework build, lint
ClaimedOrder ==
  <<"Dependency Conflict", "Build Tool Missing", "Memory Limit", "Network Issue",
    "TypeScript Error", "Next.js Build Error", "Linting Error">>

\* the example of C12: "command not found: gatsby out of memory"
GatsbyOutOfMemory ==
  <<"c","o","m","m","a","n","d"," ","n","o","t"," ","f","o","u","n","d",":"," ">>
    \o <<"g","a","t","s","b","y">>
    \o <<" ">> \o <<"o","u","t"," ","o","f"," ","m","e","m","o","r","y">>

\* C12: the table is evaluated in the order dependency, build command not
\* found, ..., memory limit, ...: a message that matches several rules is
\* given the first of them in that order, so build-command-not-found wins
\* over Memory Limit.
C12_TableInClaimedOrder ==
  (Classified /\ MatchingRules # {}) =>
     LET matched == {NETLIFY_ERROR_PATTERNS[i].category : i \in MatchingRules}
         first == Least({k \in 1..Len(ClaimedOrder) : ClaimedOrder[k] \in matched})
     IN /\ errorPattern # Null
        /\ errorPattern.category = ClaimedOrder[first]

\* C13: a record without error message (absent or empty) in a state other
\* than `stopped` is classified Unknown Error, severity medium.
C13_NoMessageIsUnknownError ==
  (/\ Analysed
   /\ deployment.state # "stopped"
   /\ MessageOrEmpty(deployment) = <<>>)
  => analysis = Analysis("Unknown Error", "medium")

CommandNotFound == <<"c","o","m","m","a","n","d"," ","n","o","t"," ","f","o","u","n","d">>

\* the rules that analyzeError returns for some message
ReachableRules ==
  {i \in 1..Len(NETLIFY_ERROR_PATTERNS) :
     \E m \in Messages : analyzeError(m) = Classification(NETLIFY_ERROR_PATTERNS[i])}

\* the server starts to handle a request
Accepting == pc = "idle" /\ call = "none"

\* C26: every rule of the table is reachable: for each rule some message is
\* classified as that rule, Next.js Build Error included.
C26_EveryRuleReachable ==
  Accepting => ReachableRules = 1..Len(NETLIFY_ERROR_PATTERNS)

\* why no message at all reaches rule 6: whatever its pattern matches, the
\* pattern of rule 3 matches as well
NextJsRuleShadowed ==
  Classified => (6 \in MatchingRules => 3 \in MatchingRules)

\* C27: a message is classified Build Tool Missing only if it contains
\* "command not found"; a mention of hugo or next is not enough.
C27_BuildToolMissingNeedsCommandNotFound ==
  (Classified /\ errorPattern # Null /\ errorPattern.category = "Build Tool Missing")
    => includes(toLowerCase(MessageOrEmpty(deployment)), CommandNotFound)

----------------------------------------------------------------------------
\* Properties of statelessness

\* what a handler that classified has answered is a function of the data of
\* its own fetches: the classification of the fetched message by the table
\* read from its start, and the verdict on that classification and the
\* fetched metrics
OwnInputsOnly ==
  /\ (pc = "done" /\ call = "smart-retry-analysis" /\ response.kind = "report") =>
        /\ errorPattern = analyzeError(MessageOrEmpty(deployment))
        /\ shouldRetry = calculateRetryRecommendation(errorPattern, metrics)
  /\ (pc = "done" /\ call = "format-error-for-ai" /\ response.kind = "report") =>
        errorPattern = analyzeError(MessageOrEmpty(deployment))
  /\ (pc = "done" /\ call = "get-build-metrics" /\ response.kind = "report") =>
        metrics = getBuildMetrics(deployments, Now)
  /\ (pc = "done" /\ call = "analyze-content-performance" /\ response.kind = "report") =>
        contentMetrics = analyzeContentImpact(deployments)

\* no step changes what a later invocation reads: the positions kept by the
\* pattern objects of the rule table and the credential of the configuration;
\* and an invocation that is over leaves none of its locals behind
SharedStateKept ==
  /\ lastIndex' = lastIndex
  /\ accessToken' = accessToken
  /\ pc' = "idle" =>
        /\ call' = "none" /\ response' = Null
        /\ deployment' = Null /\ deployments' = Null /\ errorPattern' = Null
        /\ metrics' = Null /\ shouldRetry' = Null /\ analysis' = Null
        /\ contentMetrics' = Null /\ fetches' = Null /\ promiseAll' = Null

\* C21: tool invocations are stateless across calls: over any sequence of
\* requests no invocation changes state that a later one reads (rule table,
\* configuration, credential), and the answer to a request depends only on
\* its own arguments and the data of its own fetches.
C21_StatelessAcrossCalls == []OwnInputsOnly /\ [][SharedStateKept]_vars

\* a handler has classified a message by the rule table and the pattern
\* objects are as they were at start
C21_Witness ==
  /\ pc = "done"
  /\ call = "smart-retry-analysis"
  /\ errorPattern # Null
  /\ \A i \in 1..Len(NETLIFY_ERROR_PATTERNS) : lastIndex[i] = 0

----------------------------------------------------------------------------
\* Properties of concurrent fetches

\* the two fetches of this invocation came back with what the two fetches of
\* the remembered invocation of the same tool came back with
SameOutcomes ==
  /\ pc = "done"
  /\ BothSettled
  /\ earlier # Null
  /\ earlier.call = call
  /\ earlier.fetches.deployments = fetches.deployments
  /\ earlier.fetches.metrics = fetches.metrics

AnyRejected ==
  /\ fetches # Null
  /\ \/ fetches.deployments.status = "rejected"
     \/ fetches.metrics.status = "rejected"

BothRejected ==
  /\ fetches # Null
  /\ fetches.deployments.status = "rejected"
  /\ fetches.metrics.status = "rejected"

\* a failed fetch gives an error answer, and a report is made of both values
NoPartialReport ==
  /\ (pc = "done" /\ AnyRejected) => response.kind = "error"
  /\ (pc = "done" /\ fetches # Null /\ response.kind = "report") =>
        /\ fetches.deployments.status = "fulfilled"
        /\ fetches.metrics.status = "fulfilled"
        /\ deployments = fetches.deployments.value
        /\ metrics = fetches.metrics.value

\* C22: a tool that issues its two fetches together produces the same result
\* for every order in which they complete, and a failure of either gives an
\* error outcome, never a partial report.
C22_SameResultForEveryOrder ==
  /\ SameOutcomes => response = earlier.response
  /\ NoPartialReport

\* C22 as the code has it: the result is the same for every order of
\* completion unless both fetches fail; then the outcome is an error for
\* every order, and its text carries the reason of the fetch that failed
\* first; a failure of either fetch gives an error outcome, never a partial
\* report.
C22_SameResultUnlessBothFail ==
  /\ (SameOutcomes /\ ~BothRejected) => response = earlier.response
  /\ SameOutcomes => response.kind = earlier.response.kind
  /\ (pc = "done" /\ BothRejected) =>
        response.message =
          (IF call = "get-advanced-deployment-status"
             THEN AdvancedStatusFailed ELSE CalendarFailed)
          \o fetches[fetches.first].reason
  /\ NoPartialReport

\* the same tool twice, one fetch failed and the other succeeded both times,
\* and they completed in the other order the second time
C22_Witness ==
  /\ SameOutcomes
  /\ AnyRejected
  /\ ~BothRejected
  /\ earlier.fetches.first # fetches.first
  /\ response.kind = "error"

----------------------------------------------------------------------------
\* Properties of the content metrics

\* analyze-content-performance has fetched a window and reported on it
ContentReported ==
  /\ pc = "done"
  /\ call = "analyze-content-performance"
  /\ response.kind = "report"

\* the window has no content-labelled commit (it may be empty)
NoContentCommits ==
  \A i \in 1..Len(deployments) : ~IsContentDeployment(deployments[i])

\* C30: for a window that is empty or has no content-labelled commit the
\* content metrics are well-defined zeros: totalPosts 0, averagePostSize 0,
\* imageOptimizationOpportunities 0, buildTimePerPost 0 and
\* incrementalBuildSupport false; nothing is divided by a count of zero.
C30_NoContentGivesZeroMetrics ==
  (ContentReported /\ NoContentCommits) =>
    /\ contentMetrics.totalPosts = 0
    /\ contentMetrics.averagePostSize = Num(0)
    /\ contentMetrics.imageOptimizationOpportunities = 0
    /\ contentMetrics.buildTimePerPost.num = 0
    /\ contentMetrics.incrementalBuildSupport = FALSE

----------------------------------------------------------------------------
\* Properties of the request handler

\* the names the switch of the handler has a case for (those modelled here)
KnownTools ==
  {"hello", "get-build-metrics", "smart-retry-analysis", "format-error-for-ai",
   "analyze-deployment-error", "analyze-content-performance",
   "get-advanced-deployment-status", "monitor-digitalzango-calendar"}

\* the handler of a call-tool request has settled
Handled ==
  /\ pc = "done"
  /\ call \in KnownTools \cup UnknownTools

\* C25: every call-tool request, whatever the tool name, the outcome of the
\* fetches and the configured token (the empty one included), is answered
\* with a text content and never rejected; an unknown tool name is answered
\* "Unexpected error: Unknown tool ...".
C25_AlwaysTextResponse ==
  Handled =>
    /\ response.type = "text"
    /\ call \in UnknownTools =>
         /\ response.kind = "unexpected-error"
         /\ response.message = "Unknown tool: " \o call

----------------------------------------------------------------------------
\* Properties of repeated classification

\* the part of a result that the caller is told: category and severity
CategoryAndSeverity(r) ==
  IF r = Null THEN Null ELSE [category |-> r.category, severity |-> r.severity]

\* the call that has just returned repeats the remembered one: the same
\* classifier on the same (text, state)
Repeated ==
  /\ pc = "done"
  /\ earlier # Null
  /\ earlier.call = call
  /\ earlier.deployment = deployment

\* C15: classification is deterministic and idempotent: a classifier called
\* again on the same (text, state), whatever classifications were made in
\* between, gives the same category and severity; no pattern object of the
\* rule table keeps a match position that a call could have changed.
C15_ClassificationIsIdempotent ==
  /\ \A i \in 1..Len(NETLIFY_ERROR_PATTERNS) : lastIndex[i] = 0
  /\ Repeated => CategoryAndSeverity(Returned) = CategoryAndSeverity(earlier.result)

\* a rule of the table matched, other classifications were made, and the
\* same message is classified again
C15_Witness ==
  /\ Repeated
  /\ call = "analyzeError"
  /\ earlier.calls = MaxCalls
  /\ errorPattern # Null
  /\ errorPattern.category = "Memory Limit"

====
